---- MODULE Spec2Model ----
(***************************************************************************)
(* State-machine model of the tethys store runtime: the Store class        *)
(* (packages/store/store/examples/counter/counter.component.ts, lines      *)
(* 27-250), the action metadata of utils.ts and the options of types.ts.   *)
(* InternalStoreFactory, InternalDispatcher and the @Action decorator are  *)
(* imported by the Store class but their files are not part of the source  *)
(* tree; they are modelled from sections 3 and 4 of the specification and  *)
(* marked as such where they are defined.                                  *)
(***************************************************************************)
EXTENDS Integers, Sequences, FiniteSets, TLC

(***************************************************************************)
(* Bounds of the model.                                                    *)
(***************************************************************************)
\* Store objects constructed in one behaviour.
MaxStores == 3
\* Executions that dispatches may have in flight at the same time.
MaxPending == 1
\* Subscriptions to select() made in one behaviour.
MaxSubscribers == 1
\* Actions in flight at once where their setState calls are interleaved.
InterleavedActions == 2
\* Result streams of dispatch that callers keep in one behaviour.
MaxStreams == 1
\* Observers of one result stream, the subscription dispatch makes included.
MaxObservers == 3
\* Values the Observable an action returned emits in one subscription.
MaxValues == 2

(***************************************************************************)
(* Program constants.                                                      *)
(***************************************************************************)
\* getInstanceMaxCount: the count used when the option is not a number.
DefaultInstanceMaxCount == 20
\* Number.MAX_SAFE_INTEGER (2^53 - 1), held here as the largest integer of
\* the model checker; only "larger than any number of stores" matters.
MAX_SAFE_INTEGER == 2147483647

\* Store classes of the application; the class name is the default name.
Types == {"A", "B"}
\* A third class, used where result streams are explored: it declares
\* actions of every result kind.
StreamClass == "C"

\* StoreOptions (types.ts): instanceMaxCount is optional.  A record without
\* the field is an options object that leaves it undefined.
NoMaxCount == [name |-> "-"]
WithMaxCount(n) == [name |-> "-", instanceMaxCount |-> n]
\* The options tried: class A caps its instances at 1 or 2, class B sets
\* instanceMaxCount to 0 (unlimited).
StoreOptionsChoices(type) ==
    IF type = "A" THEN {WithMaxCount(n) : n \in 1..2} ELSE {WithMaxCount(0)}

(***************************************************************************)
(* State values.  A state is an object: a function from its keys to        *)
(* values.  Values are JavaScript values named by strings.                 *)
(***************************************************************************)
Keys == {"a", "b"}
\* The values callers put in initial states and patches.
Values == {"0", "1", "undefined", "function"}
States == UNION {[ks -> Values] : ks \in SUBSET Keys}
EmptyObject == [k \in {} |-> "undefined"]

\* Values whose identity is not their content: two arrays [1] held by two
\* references, the array [1] that JSON.parse builds, and NaN.
ArrayRefs == {"[1]#1", "[1]#2"}
ParsedArray == "[1]#0"
\* The values tried where select() is explored.
SelectValues == {"0", "NaN"} \cup ArrayRefs
SelectStates == UNION {[ks -> SelectValues] : ks \in SUBSET Keys}

\* x === y: the same primitive, NaN excepted, or the same reference.
StrictEquals(x, y) == x = y /\ x # "NaN"

\* What a value holds, whichever reference holds it.
Content(x) == IF x \in ArrayRefs \cup {ParsedArray} THEN "[1]" ELSE x

\* Equality of values by content: NaN equals NaN, [1] equals [1].
ValueEquals(x, y) == Content(x) = Content(y)

\* Initial states used where the registry and the dispatcher are explored.
LifecycleInitialStates == {[a |-> "0"]}

VARIABLES
    devMode,      \* isDevMode(): diagnostics mode (TRUE) or production (FALSE)
    typeOptions,  \* the StoreOptions each store class passes to super()
    stores,       \* the Store objects constructed so far, in order
    registry,     \* InternalStoreFactory: instance id -> store object
    handles,      \* InternalDispatcher: the table of ExecutionHandles
    pending,      \* the computations in flight: token -> execution
    selections,   \* the subscriptions to select(s => s[key]), in order
    streams,      \* the result streams of dispatch that callers kept
    last          \* the last operation: its arguments and what the caller saw

vars == <<devMode, typeOptions, stores, registry, handles, pending,
          selections, streams, last>>

\* A plausible slip: the scan keeps the last free suffix, not the first.
Max(S) == CHOOSE x \in S : \A y \in S : x >= y

Min(S) == CHOOSE x \in S : \A y \in S : x <= y

Objects == 1..Len(stores)
LiveObjects == {o \in Objects : stores[o].live}

(***************************************************************************)
(* State Container: setState's merge and the construction-time clone.      *)
(***************************************************************************)
\* A plausible slip: the patch replaces the snapshot instead of merging.
SpreadReplace(s, p) == p

\* { ...s, ...p }: own keys of s, then own keys of p over them.
Spread(s, p) ==
    [k \in (DOMAIN s) \cup (DOMAIN p) |-> IF k \in DOMAIN p THEN p[k] ELSE s[k]]

\* JSON.stringify with the replacer of cloneInitialState, then JSON.parse,
\* on one property value: the replacer turns undefined into null; stringify
\* writes NaN as null; an array comes back as a new array; a function is
\* returned by the replacer and then left out by stringify, which
\* DroppedByJson states.
JsonValue(v) ==
    IF v \in {"undefined", "NaN"} THEN "null"
    ELSE IF v \in ArrayRefs THEN ParsedArray
    ELSE v
DroppedByJson(v) == v = "function"

cloneInitialState(initialState) ==
    [k \in {x \in DOMAIN initialState : ~DroppedByJson(initialState[x])} |->
        JsonValue(initialState[k])]

(***************************************************************************)
(* Store: name and instance id.                                            *)
(***************************************************************************)
\* setName / getNameByConstructor: options.name when given, else the class
\* name.  The options of this model give no name ("-" stands for none).
setName(type, options) == IF options.name # "-" THEN options.name ELSE type

\* A plausible slip: a count of 0 is taken as it stands, not as unlimited.
getInstanceMaxCountLiteral(options) ==
    IF "instanceMaxCount" \in DOMAIN options
    THEN options.instanceMaxCount
    ELSE DefaultInstanceMaxCount

\* getInstanceMaxCount: a numeric option is used, a count <= 0 standing for
\* Number.MAX_SAFE_INTEGER; without a numeric option the count is 20.
getInstanceMaxCount(options) ==
    IF "instanceMaxCount" \in DOMAIN options
    THEN (IF options.instanceMaxCount <= 0 THEN MAX_SAFE_INTEGER
          ELSE options.instanceMaxCount)
    ELSE DefaultInstanceMaxCount

\* `${name}-${i}`
SuffixedId(name, i) == name \o "-" \o ToString(i)

\* InternalStoreFactory.instance.get(id): the store registered under id, if any.
FactoryHas(reg, id) == id \in DOMAIN reg

\* A plausible slip: the loop runs to instanceMaxCount, one suffix too far.
ScannedSuffixesInclusive(reg, instanceMaxCount) ==
    {i \in 1..(Cardinality(DOMAIN reg) + 1) : i <= instanceMaxCount}

\* The suffixes the for loop of createStoreInstanceId can reach before it
\* breaks: with k ids registered one of 1..k+1 is free, so the loop never
\* runs past k+1 even when instanceMaxCount is MAX_SAFE_INTEGER.
ScannedSuffixes(reg, instanceMaxCount) ==
    {i \in 1..(Cardinality(DOMAIN reg) + 1) : i <= instanceMaxCount - 1}

\* A plausible slip: production mode throws as diagnostics mode does.
createStoreInstanceIdAlwaysThrows(name, options, reg, dev) ==
    LET instanceMaxCount == getInstanceMaxCount(options)
        free == {i \in ScannedSuffixes(reg, instanceMaxCount) :
                    ~FactoryHas(reg, SuffixedId(name, i))}
        j == IF free = {} THEN 0 ELSE Min(free)
    IN  IF ~FactoryHas(reg, name) THEN [threw |-> FALSE, id |-> name]
        ELSE IF j = 0 THEN [threw |-> TRUE, id |-> "-"]
        ELSE [threw |-> FALSE, id |-> SuffixedId(name, j)]

\* A plausible slip: diagnostics mode does not throw either.
createStoreInstanceIdNeverThrows(name, options, reg, dev) ==
    LET instanceMaxCount == getInstanceMaxCount(options)
        free == {i \in ScannedSuffixes(reg, instanceMaxCount) :
                    ~FactoryHas(reg, SuffixedId(name, i))}
        j == IF free = {} THEN 0 ELSE Min(free)
    IN  IF ~FactoryHas(reg, name) THEN [threw |-> FALSE, id |-> name]
        ELSE [threw |-> FALSE, id |-> SuffixedId(name, j)]

\* createStoreInstanceId: the bare name when it is not registered, else the
\* first suffix i in 1..instanceMaxCount-1 whose id is not registered; with
\* none (j = 0) it throws in diagnostics mode and returns `${name}-0`
\* otherwise.
createStoreInstanceId(name, options, reg, dev) ==
    LET instanceMaxCount == getInstanceMaxCount(options)
        free == {i \in ScannedSuffixes(reg, instanceMaxCount) :
                    ~FactoryHas(reg, SuffixedId(name, i))}
        j == IF free = {} THEN 0 ELSE Min(free)
    IN  IF ~FactoryHas(reg, name) THEN [threw |-> FALSE, id |-> name]
        ELSE IF j = 0 /\ dev THEN [threw |-> TRUE, id |-> "-"]
        ELSE [threw |-> FALSE, id |-> SuffixedId(name, j)]

\* getStoreInstanceId
getStoreInstanceId(o) == stores[o].defaultStoreInstanceId

(***************************************************************************)
(* Action Registry.  The @Action decorator is not in the source tree; what *)
(* each store class has registered is input, per section 4.2.  Class A     *)
(* declares an asynchronous action, class B declares none of its own,      *)
(* class C declares one action of each result kind; all have the built-in  *)
(* clearState of the Store class.                                          *)
(***************************************************************************)
RegisteredActions(type) ==
    CASE type = "A" -> {"clearState", "fetch"}
      [] type = StreamClass -> {"clearState", "fetch", "save", "count", "boom"}
      [] OTHER -> {"clearState"}

\* What the implementation of each action does when called (_dispatch tells
\* a Promise and an Observable from any other value): fetch returns an
\* Observable, save a Promise, boom throws, count and clearState return a
\* plain value.
ResultKind(action) ==
    CASE action = "fetch" -> "observable"
      [] action = "save" -> "promise"
      [] action = "boom" -> "throws"
      [] OTHER -> "plain"

\* The plain value count returns (clearState returns undefined), and the
\* value the Promise of save resolves to.
ReturnedValue(action) == IF action = "count" THEN "v1" ELSE "undefined"
ResolvedValue(action) == "v1"
\* The values the Observable of fetch may emit.
StreamValues == {"v1", "v2"}

\* Names a caller may pass to dispatch(type): the registered ones, a name no
\* class registers, and a name every JavaScript object inherits.
ObjectPrototypeKeys == {"toString"}
ActionNames == {"clearState", "fetch", "remove"} \cup ObjectPrototypeKeys

\* meta.actions[action.type], where meta.actions starts as the object
\* literal {} of findAndCreateStoreMetadata: a registered name gives its
\* descriptor, a name inherited from Object.prototype gives that inherited
\* member (truthy, without originalFn), any other name gives undefined.
ActionMetaLookup(type, action) ==
    IF action \in RegisteredActions(type) THEN "descriptor"
    ELSE IF action \in ObjectPrototypeKeys THEN "inherited"
    ELSE "undefined"

(***************************************************************************)
(* Instance Registry (InternalStoreFactory), from section 4.1: a table     *)
(* indexed by instance id holding a back-reference to the store.           *)
(***************************************************************************)
FactoryRegister(reg, id, o) ==
    [i \in (DOMAIN reg) \cup {id} |-> IF i = id THEN o ELSE reg[i]]

FactoryUnregister(reg, id) == [i \in (DOMAIN reg) \ {id} |-> reg[i]]

(***************************************************************************)
(* Dispatcher (InternalDispatcher), from section 4.3: a table of           *)
(* ExecutionHandles (storeInstanceId, executionToken), one per execution   *)
(* in flight, removed on completion, error or cancellation.                *)
(***************************************************************************)
FreeTokens == (1..MaxPending) \ DOMAIN pending
NextToken == Min(FreeTokens)

\* The handles cancel(storeId, scope) removes.
CancelledHandles(storeId, scope) ==
    {h \in handles : scope = "all" \/ h.storeId = storeId}

\* The terminal status each handle of hs takes when it leaves the table:
\* an ExecutionHandle is Pending while it is in the table and moves to
\* Completed, Errored or Cancelled as it is removed.
Ended(hs, status) ==
    {[storeId |-> h.storeId, token |-> h.token, status |-> status] : h \in hs}

\* A plausible slip: cancellation is reported through the error path.
CancelledAsErrored(hs) == Ended(hs, "Errored")

Cancelled(hs) == Ended(hs, "Cancelled")

WithoutTokens(p, tokens) == [t \in (DOMAIN p) \ tokens |-> p[t]]

WithExecution(p, token, e) ==
    [t \in (DOMAIN p) \cup {token} |-> IF t = token THEN e ELSE p[t]]

NoOp == [op |-> "none"]

Init ==
    /\ devMode \in BOOLEAN
    /\ typeOptions \in {f \in [Types -> UNION {StoreOptionsChoices(t) : t \in Types}] :
                          \A t \in Types : f[t] \in StoreOptionsChoices(t)}
    /\ stores = <<>>
    /\ registry = [i \in {} |-> 0]
    /\ handles = {}
    /\ pending = [t \in {} |-> 0]
    /\ selections = <<>>
    /\ streams = <<>>
    /\ last = NoOp

(***************************************************************************)
(* new Store(initialState, options)                                        *)
(***************************************************************************)
LiveOfName(name) == {o \in LiveObjects : stores[o].name = name}

\* The fields the constructor sets.  constructedWith is not a field of the
\* program: it keeps the initialState argument for the properties below.
NewStore(type, options, id, initialState) ==
    [class |-> type,
     name |-> setName(type, options),
     storeOptions |-> options,
     defaultStoreInstanceId |-> id,
     snapshot |-> initialState,
     initialStateCache |-> cloneInitialState(initialState),
     live |-> TRUE,
     constructedWith |-> initialState]

\* A plausible slip: the INIT dispatch is issued before register(this).
ConstructorDispatchesBeforeRegister(regBefore, regAfter, id, o) ==
    <<[storeId |-> id, type |-> "INIT",
       registered |-> (id \in DOMAIN regBefore /\ regBefore[id] = o)]>>

\* What the constructor hands to InternalDispatcher.dispatch, in order: one
\* INIT action under getStoreInstanceId(), issued after register(this), so
\* against the registry regAfter that register left.  `registered` records
\* whether the store was registered under that id when the dispatch was made.
ConstructorDispatches(regBefore, regAfter, id, o) ==
    <<[storeId |-> id, type |-> "INIT",
       registered |-> (id \in DOMAIN regAfter /\ regAfter[id] = o)]>>

Constructor(type, initialState) ==
    /\ Len(stores) < MaxStores
    /\ LET options == typeOptions[type]
           name == setName(type, options)
           r == createStoreInstanceId(name, options, registry, devMode)
           o == Len(stores) + 1
           called == [op |-> "new", type |-> type,
                      liveBefore |-> Cardinality(LiveOfName(name)),
                      idsBefore |-> {getStoreInstanceId(x) : x \in LiveOfName(name)}]
       IN  IF r.threw
           THEN \* the throw of createStoreInstanceId leaves the constructor
                \* before state$, register and the INIT dispatch
                /\ last' = called @@ [error |-> "ConfigurationError", obj |-> 0,
                                      id |-> "-", dispatched |-> <<>>]
                /\ UNCHANGED <<stores, registry, handles, pending>>
           ELSE /\ stores' = Append(stores, NewStore(type, options, r.id, initialState))
                /\ registry' = FactoryRegister(registry, r.id, o)
                \* the INIT dispatch: its callback returns at once, so its
                \* handle is recorded and removed within the call
                /\ last' = called @@ [error |-> "none", obj |-> o, id |-> r.id,
                                      dispatched |-> ConstructorDispatches(registry,
                                          FactoryRegister(registry, r.id, o), r.id, o)]
                /\ UNCHANGED <<handles, pending>>
    /\ UNCHANGED <<devMode, typeOptions, selections, streams>>

(***************************************************************************)
(* setState: the argument is a partial state or a function of the          *)
(* snapshot giving one.                                                    *)
(***************************************************************************)
\* The functions callers pass to setState in this model.
StateFns == {"aToB", "swap", "nothing"}

Read(s, k) == IF k \in DOMAIN s THEN s[k] ELSE "undefined"

ApplyFn(f, s) ==
    CASE f = "aToB" -> [b |-> Read(s, "a")]
      [] f = "swap" -> [a |-> Read(s, "b"), b |-> Read(s, "a")]
      [] OTHER -> EmptyObject

\* A plausible slip: select() without distinctUntilChanged.
EmitAlways(sel, state) ==
    [sel EXCEPT !.prev = Read(state, sel.key), !.emitted = TRUE]

\* One subscription to select(s => s[key]) when state$ emits `state`:
\* map(selector), then distinctUntilChanged(), which lets the value through
\* unless it is === the value it let through last (prev).
Emit(sel, state) ==
    LET v == Read(state, sel.key)
    IN  IF StrictEquals(sel.prev, v) THEN [sel EXCEPT !.emitted = FALSE]
        ELSE [sel EXCEPT !.prev = v, !.emitted = TRUE]

\* state$.next(state) of store o, as its select() subscribers see it.
Notified(o, state) ==
    [i \in DOMAIN selections |->
        IF selections[i].obj = o THEN Emit(selections[i], state)
        ELSE selections[i]]

\* A plausible slip: the patch is merged into the state the store was
\* constructed with, not into the snapshot of the moment.
WithSetStateStale(o, patch) ==
    [stores EXCEPT ![o].snapshot = Spread(stores[o].constructedWith, patch)]

\* this.next({ ...this.snapshot, ...patch })
WithSetState(o, patch) ==
    [stores EXCEPT ![o].snapshot = Spread(stores[o].snapshot, patch)]

SetState(o, patch) ==
    /\ o \in LiveObjects
    /\ stores' = WithSetState(o, patch)
    /\ selections' = Notified(o, WithSetState(o, patch)[o].snapshot)
    /\ last' = [op |-> "setState", obj |-> o, form |-> "object", arg |-> patch,
                before |-> stores[o].snapshot]
    /\ UNCHANGED <<devMode, typeOptions, streams, registry, handles, pending>>

SetStateFn(o, f) ==
    /\ o \in LiveObjects
    /\ stores' = WithSetState(o, ApplyFn(f, stores[o].snapshot))
    /\ selections' = Notified(o, WithSetState(o, ApplyFn(f, stores[o].snapshot))[o].snapshot)
    /\ last' = [op |-> "setState", obj |-> o, form |-> "function", fn |-> f,
                before |-> stores[o].snapshot]
    /\ UNCHANGED <<devMode, typeOptions, streams, registry, handles, pending>>

\* An action in flight (its Promise or Observable has not ended) calls
\* this.setState from a continuation.  JavaScript runs each continuation to
\* its end before the next one starts, so the call is one step.
InFlightSetState(token, patch) ==
    /\ token \in DOMAIN pending
    /\ SetState(pending[token].obj, patch)

InFlightSetStateFn(token, f) ==
    /\ token \in DOMAIN pending
    /\ SetStateFn(pending[token].obj, f)

\* The body of clearState: this.setState(this.initialStateCache).
WithClearState(o) == WithSetState(o, stores[o].initialStateCache)

\* The stores after the implementation of `action` ran on store o: only
\* clearState is known to write state.
AfterImplementation(o, action) ==
    IF action = "clearState" THEN WithClearState(o) ELSE stores

\* The select() subscriptions after it: clearState calls next() once.
NotifiedByImplementation(o, action) ==
    IF action = "clearState" THEN Notified(o, WithClearState(o)[o].snapshot)
    ELSE selections

(***************************************************************************)
(* select(selector).subscribe(...): state$ is a BehaviorSubject, so the    *)
(* subscriber receives the projection of the current snapshot at once.     *)
(* The selectors of this model read one key.                               *)
(***************************************************************************)
Select(o, key) ==
    /\ o \in LiveObjects
    /\ Len(selections) < MaxSubscribers
    /\ selections' = Append(selections,
           [obj |-> o, key |-> key, prev |-> Read(stores[o].snapshot, key),
            emitted |-> TRUE])
    /\ last' = [op |-> "select", obj |-> o, key |-> key]
    /\ UNCHANGED <<devMode, typeOptions, stores, registry, handles, pending, streams>>

(***************************************************************************)
(* Calling a decorated action method.  The wrapper the @Action decorator   *)
(* installs is modelled from section 4.4: it dispatches through the        *)
(* Dispatcher under the store's own instance id.                           *)
(***************************************************************************)
CallAction(o, action) ==
    /\ o \in LiveObjects
    /\ action \in RegisteredActions(stores[o].class)
    /\ LET id == getStoreInstanceId(o)
           kind == ResultKind(action)
       IN  /\ stores' = AfterImplementation(o, action)
           /\ selections' = NotifiedByImplementation(o, action)
           /\ IF kind \in {"plain", "throws"}
              THEN \* the stream ends within the call (section 4.3: a
                   \* synchronous throw terminates the stream at once)
                   UNCHANGED <<handles, pending>>
              ELSE /\ FreeTokens # {}
                   /\ pending' = WithExecution(pending, NextToken,
                          [obj |-> o, type |-> action, via |-> "action", kind |-> kind])
                   /\ handles' = handles \cup {[storeId |-> id, token |-> NextToken]}
           /\ last' = [op |-> "action", obj |-> o, type |-> action, error |-> "none",
                       invoked |-> <<action>>,
                       dispatched |-> <<[storeId |-> id, type |-> action]>>,
                       before |-> stores[o].snapshot]
    /\ UNCHANGED <<devMode, typeOptions, streams, registry>>

(***************************************************************************)
(* dispatch(type, payload), the deprecated form, with _dispatch.           *)
(***************************************************************************)
\* The stream dispatch returns, as its caller holds it.  `result` is the
\* Observable _dispatch made of what originalFn returned, called the source
\* below; the stream is result.pipe(shareReplay()), already subscribed once
\* by dispatch itself (observer 1).  A plain result gives a source that
\* emits {} on subscription and never completes.  `invocations` counts the
\* calls of originalFn, `runs` the times the work behind the source was
\* started (once by the call for a plain value or a Promise, once by each
\* subscription for an Observable the action returned), `first` keeps what
\* the source emitted in its first run, `buffer` is the replay buffer of
\* shareReplay, `token` the computation in flight behind the source (0 when
\* none is).
NewStream(o, type, token) ==
    LET emitted == IF ResultKind(type) = "plain" THEN <<"{}">> ELSE <<>>
    IN  [obj |-> o, type |-> type, kind |-> ResultKind(type), token |-> token,
         invocations |-> 1, runs |-> 1,
         first |-> emitted, buffer |-> emitted, status |-> "open",
         observers |-> <<[received |-> emitted, status |-> "open"]>>]

\* `keep` tells whether the caller keeps the returned stream to subscribe
\* to it (it is tracked in streams then) or drops it.
Dispatch(o, type, keep) ==
    /\ o \in LiveObjects
    /\ LET actionMeta == ActionMetaLookup(stores[o].class, type)
           called == [op |-> "dispatch", obj |-> o, type |-> type,
                      dispatched |-> <<>>, before |-> stores[o].snapshot]
       IN  CASE actionMeta = "undefined" ->
                    \* throw new Error(`${action.type} is not found`)
                    /\ last' = called @@ [error |-> "ActionNotFound", invoked |-> <<>>]
                    /\ UNCHANGED <<stores, selections, handles, pending, streams>>
             [] actionMeta = "inherited" ->
                    \* actionMeta.originalFn is undefined: its .call throws
                    /\ last' = called @@ [error |-> "TypeError", invoked |-> <<>>]
                    /\ UNCHANGED <<stores, selections, handles, pending, streams>>
             [] actionMeta = "descriptor" /\ ResultKind(type) = "throws" ->
                    \* originalFn.call(...) is not inside a try: what the
                    \* implementation throws leaves _dispatch and dispatch,
                    \* and no stream is returned
                    /\ last' = called @@ [error |-> "Thrown", invoked |-> <<type>>]
                    /\ UNCHANGED <<stores, selections, handles, pending, streams>>
             [] OTHER ->
                    \* _dispatch calls originalFn itself, never the Dispatcher:
                    \* no handle is recorded.  The result, made an Observable,
                    \* is subscribed; a plain result gives an Observable that
                    \* emits {} and never completes.
                    /\ FreeTokens # {}
                    /\ stores' = AfterImplementation(o, type)
                    /\ selections' = NotifiedByImplementation(o, type)
                    /\ pending' = WithExecution(pending, NextToken,
                           [obj |-> o, type |-> type, via |-> "dispatch",
                            kind |-> ResultKind(type)])
                    /\ UNCHANGED handles
                    /\ keep => Len(streams) < MaxStreams
                    /\ streams' = IF keep
                                  THEN Append(streams, NewStream(o, type, NextToken))
                                  ELSE streams
                    /\ last' = called @@ [error |-> "none", invoked |-> <<type>>]
    /\ UNCHANGED <<devMode, typeOptions, registry>>

(***************************************************************************)
(* An execution in flight ends: its stream completes or fails.             *)
(***************************************************************************)
Ends(token) == token \in DOMAIN pending /\ pending[token].kind # "plain"

HandlesOfToken(token) == {h \in handles : h.token = token}

\* The observers subscribed to the current subject of a stream are those
\* still open; `vs` is delivered to them and they are left in `status`.
Delivered(observers, vs, status) ==
    [i \in DOMAIN observers |->
        IF observers[i].status = "open"
        THEN [received |-> observers[i].received \o vs, status |-> status]
        ELSE observers[i]]

\* A kept stream when its source completes: from(promise) emits the
\* resolved value and completes, an Observable just completes.
SourceCompleted(st) ==
    LET vs == IF st.kind = "promise" THEN <<ResolvedValue(st.type)>> ELSE <<>>
    IN  [st EXCEPT !.token = 0, !.status = "completed",
                   !.buffer = @ \o vs,
                   !.first = IF st.runs = 1 THEN @ \o vs ELSE @,
                   !.observers = Delivered(@, vs, "completed")]

\* A kept stream when its source fails.
SourceFailed(st) ==
    [st EXCEPT !.token = 0, !.status = "errored",
               !.observers = Delivered(@, <<>>, "errored")]

StreamsAfterComplete(token) ==
    [s \in DOMAIN streams |->
        IF streams[s].token = token THEN SourceCompleted(streams[s]) ELSE streams[s]]

StreamsAfterFail(token) ==
    [s \in DOMAIN streams |->
        IF streams[s].token = token THEN SourceFailed(streams[s]) ELSE streams[s]]

Complete(token) ==
    /\ Ends(token)
    /\ streams' = StreamsAfterComplete(token)
    /\ pending' = WithoutTokens(pending, {token})
    /\ handles' = handles \ HandlesOfToken(token)
    /\ last' = [op |-> "complete", token |-> token, obj |-> pending[token].obj,
                ended |-> Ended(HandlesOfToken(token), "Completed")]
    /\ UNCHANGED <<devMode, typeOptions, selections, stores, registry>>

Fail(token) ==
    /\ Ends(token)
    /\ streams' = StreamsAfterFail(token)
    /\ pending' = WithoutTokens(pending, {token})
    /\ handles' = handles \ HandlesOfToken(token)
    /\ last' = [op |-> "error", token |-> token, obj |-> pending[token].obj,
                ended |-> Ended(HandlesOfToken(token), "Errored")]
    /\ UNCHANGED <<devMode, typeOptions, selections, stores, registry>>

(***************************************************************************)
(* The result stream of dispatch: result.pipe(shareReplay()).  shareReplay *)
(* with no argument keeps every value in a ReplaySubject, stays subscribed *)
(* to the source whatever the number of observers, and lets go of the      *)
(* subject when the source fails: the next observer then gets a new        *)
(* subject and the source is subscribed again.                             *)
(***************************************************************************)
\* The Observable an action returned emits v.
SourceNext(s, v) ==
    /\ s \in DOMAIN streams
    /\ streams[s].kind = "observable"
    /\ streams[s].token \in DOMAIN pending
    /\ Len(streams[s].buffer) < MaxValues
    /\ streams' = [streams EXCEPT
           ![s].buffer = Append(@, v),
           ![s].first = IF streams[s].runs = 1 THEN Append(@, v) ELSE @,
           ![s].observers = Delivered(@, <<v>>, "open")]
    /\ last' = [op |-> "next", stream |-> s, value |-> v]
    /\ UNCHANGED <<devMode, typeOptions, stores, registry, handles, pending, selections>>

\* A caller subscribes one more observer to the stream dispatch returned.
SubscribeResult(s) ==
    /\ s \in DOMAIN streams
    /\ Len(streams[s].observers) < MaxObservers
    /\ IF streams[s].status = "errored" /\ streams[s].kind = "observable"
       THEN \* the subject is gone: a new one, and the source is subscribed
            \* again, which starts its computation once more
            /\ FreeTokens # {}
            /\ streams' = [streams EXCEPT
                   ![s].token = NextToken,
                   ![s].runs = @ + 1,
                   ![s].buffer = <<>>,
                   ![s].status = "open",
                   ![s].observers = Append(@, [received |-> <<>>, status |-> "open"])]
            /\ pending' = WithExecution(pending, NextToken,
                   [obj |-> streams[s].obj, type |-> streams[s].type,
                    via |-> "dispatch", kind |-> streams[s].kind])
       ELSE \* the subject replays its buffer, and its completion if any; a
            \* rejected Promise, subscribed again, rejects again
            /\ streams' = [streams EXCEPT
                   ![s].observers = Append(@, [received |-> streams[s].buffer,
                                               status |-> streams[s].status])]
            /\ UNCHANGED pending
    /\ last' = [op |-> "subscribe", stream |-> s,
                resubscribed |-> (streams[s].status = "errored"
                                  /\ streams[s].kind = "observable")]
    /\ UNCHANGED <<devMode, typeOptions, stores, registry, handles, selections>>

(***************************************************************************)
(* cancelUncompleted(scope) and ngOnDestroy.                               *)
(***************************************************************************)
\* InternalDispatcher.instance.cancel(this.getStoreInstanceId(), scope)
CancelTargets(o, scope) == CancelledHandles(getStoreInstanceId(o), scope)

CancelUncompleted(o, scope) ==
    /\ o \in LiveObjects
    /\ handles' = handles \ CancelTargets(o, scope)
    /\ pending' = WithoutTokens(pending, {h.token : h \in CancelTargets(o, scope)})
    /\ last' = [op |-> "cancelUncompleted", obj |-> o, scope |-> scope,
                ended |-> Cancelled(CancelTargets(o, scope))]
    /\ UNCHANGED <<devMode, typeOptions, selections, streams, stores, registry>>

\* unregister(this), then cancelUncompleted() with the default scope 'store'.
NgOnDestroy(o) ==
    /\ o \in LiveObjects
    /\ registry' = FactoryUnregister(registry, getStoreInstanceId(o))
    /\ handles' = handles \ CancelTargets(o, "store")
    /\ pending' = WithoutTokens(pending, {h.token : h \in CancelTargets(o, "store")})
    /\ stores' = [stores EXCEPT ![o].live = FALSE]
    /\ last' = [op |-> "ngOnDestroy", obj |-> o,
                ended |-> Cancelled(CancelTargets(o, "store"))]
    /\ UNCHANGED <<devMode, typeOptions, selections, streams>>

(***************************************************************************)
(* Spec: the registry and the dispatcher under constructions, dispatches,  *)
(* cancellations and teardowns of several stores.                          *)
(***************************************************************************)
Next ==
    \/ \E type \in Types, s \in LifecycleInitialStates : Constructor(type, s)
    \/ \E o \in Objects : NgOnDestroy(o)
    \/ \E o \in Objects, a \in ActionNames : CallAction(o, a)
    \/ \E o \in Objects, a \in {"fetch", "remove"} : Dispatch(o, a, FALSE)
    \/ \E t \in 1..MaxPending : Complete(t)
    \/ \E t \in 1..MaxPending : Fail(t)
    \/ \E o \in Objects, scope \in {"store", "all"} : CancelUncompleted(o, scope)

Spec == Init /\ [][Next]_vars

(***************************************************************************)
(* SpecState: the state container of one store of class B, constructed     *)
(* with any initial state, under setState, clearState and dispatch.        *)
(***************************************************************************)
InitState ==
    \E s \in States :
        /\ devMode = TRUE
        /\ typeOptions = [t \in Types |-> WithMaxCount(IF t = "A" THEN 2 ELSE 0)]
        /\ stores = <<NewStore("B", typeOptions["B"], "B", s)>>
        /\ registry = FactoryRegister([i \in {} |-> 0], "B", 1)
        /\ handles = {}
        /\ pending = [t \in {} |-> 0]
        /\ selections = <<>>
        /\ streams = <<>>
        /\ last = [op |-> "new", type |-> "B", liveBefore |-> 0, idsBefore |-> {},
                   error |-> "none", obj |-> 1, id |-> "B",
                   dispatched |-> <<[storeId |-> "B", type |-> "INIT",
                                     registered |-> TRUE]>>]

NextState ==
    \/ \E p \in States : SetState(1, p)
    \/ \E f \in StateFns : SetStateFn(1, f)
    \/ CallAction(1, "clearState")
    \/ \E a \in ActionNames : Dispatch(1, a, FALSE)

SpecState == InitState /\ [][NextState]_vars

(***************************************************************************)
(* SpecConstruct: constructions with initial states of several shapes      *)
(* (a plain value, an undefined field, a function field) and teardowns.    *)
(***************************************************************************)
ConstructionInitialStates ==
    {[a |-> "0"], [a |-> "undefined"], [a |-> "function", b |-> "1"]}

NextConstruct ==
    \/ \E type \in Types, s \in ConstructionInitialStates : Constructor(type, s)
    \/ \E o \in Objects : NgOnDestroy(o)

SpecConstruct == Init /\ [][NextConstruct]_vars

(***************************************************************************)
(* SpecSelect: one store of class B and the subscribers of                 *)
(* select(s => s.a) under setState and clearState, with state values that  *)
(* tell strict equality from equality of content.                          *)
(***************************************************************************)
InitSelect ==
    \E s \in SelectStates :
        /\ devMode = TRUE
        /\ typeOptions = [t \in Types |-> WithMaxCount(IF t = "A" THEN 2 ELSE 0)]
        /\ stores = <<NewStore("B", typeOptions["B"], "B", s)>>
        /\ registry = FactoryRegister([i \in {} |-> 0], "B", 1)
        /\ handles = {}
        /\ pending = [t \in {} |-> 0]
        /\ selections = <<>>
        /\ streams = <<>>
        /\ last = [op |-> "new", type |-> "B", liveBefore |-> 0, idsBefore |-> {},
                   error |-> "none", obj |-> 1, id |-> "B",
                   dispatched |-> <<[storeId |-> "B", type |-> "INIT",
                                     registered |-> TRUE]>>]

NextSelect ==
    \/ Select(1, "a")
    \/ \E p \in SelectStates : SetState(1, p)
    \/ \E f \in StateFns : SetStateFn(1, f)
    \/ CallAction(1, "clearState")

SpecSelect == InitSelect /\ [][NextSelect]_vars

(***************************************************************************)
(* SpecStream: one store of class C, the streams its dispatch returns and  *)
(* the observers callers subscribe to them.                                *)
(***************************************************************************)
InitStream ==
    /\ devMode = TRUE
    /\ typeOptions = [t \in Types \cup {StreamClass} |->
                         WithMaxCount(IF t = "A" THEN 2 ELSE 0)]
    /\ stores = <<NewStore(StreamClass, typeOptions[StreamClass], StreamClass,
                           [a |-> "0"])>>
    /\ registry = FactoryRegister([i \in {} |-> 0], StreamClass, 1)
    /\ handles = {}
    /\ pending = [t \in {} |-> 0]
    /\ selections = <<>>
    /\ streams = <<>>
    /\ last = [op |-> "new", type |-> StreamClass, liveBefore |-> 0, idsBefore |-> {},
               error |-> "none", obj |-> 1, id |-> StreamClass,
               dispatched |-> <<[storeId |-> StreamClass, type |-> "INIT",
                                 registered |-> TRUE]>>]

NextStream ==
    \/ \E a \in RegisteredActions(StreamClass), keep \in BOOLEAN : Dispatch(1, a, keep)
    \/ \E s \in 1..MaxStreams : SubscribeResult(s)
    \/ \E s \in 1..MaxStreams, v \in StreamValues : SourceNext(s, v)
    \/ \E t \in 1..MaxPending : Complete(t)
    \/ \E t \in 1..MaxPending : Fail(t)

SpecStream == InitStream /\ [][NextStream]_vars

(***************************************************************************)
(* SpecInterleave: one store of class C with several fetch actions in      *)
(* flight (the state after new C(s) and that many calls of fetch()), whose *)
(* continuations call setState in any order until they end.                *)
(***************************************************************************)
InterleaveStates == UNION {[ks -> {"0", "1"}] : ks \in SUBSET Keys}

InitInterleave ==
    \E s \in InterleaveStates :
        /\ devMode = TRUE
        /\ typeOptions = [t \in Types \cup {StreamClass} |->
                             WithMaxCount(IF t = "A" THEN 2 ELSE 0)]
        /\ stores = <<NewStore(StreamClass, typeOptions[StreamClass], StreamClass, s)>>
        /\ registry = FactoryRegister([i \in {} |-> 0], StreamClass, 1)
        /\ handles = {[storeId |-> StreamClass, token |-> t] : t \in 1..InterleavedActions}
        /\ pending = [t \in 1..InterleavedActions |->
                         [obj |-> 1, type |-> "fetch", via |-> "action",
                          kind |-> "observable"]]
        /\ selections = <<>>
        /\ streams = <<>>
        /\ last = [op |-> "action", obj |-> 1, type |-> "fetch", error |-> "none",
                   invoked |-> <<"fetch">>,
                   dispatched |-> <<[storeId |-> StreamClass, type |-> "fetch"]>>,
                   before |-> s]

NextInterleave ==
    \/ \E t \in 1..InterleavedActions, p \in InterleaveStates : InFlightSetState(t, p)
    \/ \E t \in 1..InterleavedActions, f \in StateFns : InFlightSetStateFn(t, f)
    \/ \E t \in 1..InterleavedActions : Complete(t)
    \/ \E t \in 1..InterleavedActions : Fail(t)

SpecInterleave == InitInterleave /\ [][NextInterleave]_vars

(***************************************************************************)
(* Properties.                                                             *)
(***************************************************************************)
LiveIds(name) == {getStoreInstanceId(o) : o \in LiveOfName(name)}
NameOf(type) == setName(type, typeOptions[type])

\* The option instanceMaxCount = n >= 1 of the class and n live instances
\* of it before the construction that `new` records.
AtCapacity(new) ==
    /\ "instanceMaxCount" \in DOMAIN typeOptions[new.type]
    /\ typeOptions[new.type].instanceMaxCount >= 1
    /\ new.liveBefore = typeOptions[new.type].instanceMaxCount

\* The bare name and every suffix 1..n-1 are held by live instances.
Exhausted(new) ==
    /\ "instanceMaxCount" \in DOMAIN typeOptions[new.type]
    /\ typeOptions[new.type].instanceMaxCount >= 1
    /\ NameOf(new.type) \in new.idsBefore
    /\ \A i \in 1..(typeOptions[new.type].instanceMaxCount - 1) :
           SuffixedId(NameOf(new.type), i) \in new.idsBefore

\* C1: the id given to a newly constructed store is never an id held by
\* another live store of the same type, in either mode.
C1_NewIdNotHeldByLiveStore ==
    (last.op = "new" /\ last.error = "none") => last.id \notin last.idsBefore

\* C2 as stated: in every reachable state and in both modes, the number of
\* distinct live ids of a type is at most the type's instanceMaxCount.
C2_LiveIdsWithinMaxCount ==
    \A t \in Types :
        Cardinality(LiveIds(NameOf(t))) <= getInstanceMaxCount(typeOptions[t])

\* C2 amended: in diagnostics mode the distinct live ids of a type number at
\* most instanceMaxCount; in production mode at most instanceMaxCount + 1,
\* the extra one being the id `Name-0` given on overflow.
C2_LiveIdsWithinMaxCountByMode ==
    \A t \in Types :
        Cardinality(LiveIds(NameOf(t))) - (IF devMode THEN 0 ELSE 1)
            <= getInstanceMaxCount(typeOptions[t])

C2_Witness ==
    /\ devMode
    /\ last.op = "new"
    /\ last.error = "ConfigurationError"
    /\ Cardinality(LiveIds(NameOf(last.type))) = getInstanceMaxCount(typeOptions[last.type])

\* C3: in diagnostics mode, with instanceMaxCount = n and n instances of the
\* type live, a construction fails with a configuration error and leaves the
\* registry, the handle table and the stores as they were: nothing is
\* registered, nothing dispatched, no store object comes to exist.
C3_FullTypeConstructionFails ==
    [][(devMode /\ last'.op = "new" /\ AtCapacity(last'))
         => /\ last'.error = "ConfigurationError"
            /\ last'.dispatched = <<>>
            /\ registry' = registry
            /\ handles' = handles
            /\ pending' = pending
            /\ stores' = stores]_vars

C3_Witness ==
    /\ devMode
    /\ last.op = "new"
    /\ AtCapacity(last)
    /\ last.liveBefore = 2
    /\ last.error = "ConfigurationError"

\* C4 as stated: in production mode, with instanceMaxCount = n and n
\* instances of the type live, a construction succeeds and the id it
\* receives is the id of an instance that is already live.
C4_ProductionReusesLiveId ==
    (~devMode /\ last.op = "new" /\ AtCapacity(last))
        => (last.error = "none" /\ last.id \in last.idsBefore)

\* C4 amended: in production mode a construction never fails; when the bare
\* name and every suffix 1..n-1 are held by live instances the new store
\* receives `Name-0`; and `Name-0` is the only id a new store can share with
\* a live one (it does when an earlier overflow instance is still live).
C4_ProductionOverflowGetsSuffixZero ==
    (~devMode /\ last.op = "new")
        => /\ last.error = "none"
           /\ Exhausted(last) => last.id = SuffixedId(NameOf(last.type), 0)
           /\ last.id \in last.idsBefore => last.id = SuffixedId(NameOf(last.type), 0)

C4_Witness ==
    /\ ~devMode
    /\ last.op = "new"
    /\ AtCapacity(last)
    /\ last.error = "none"
    /\ last.id = SuffixedId(NameOf(last.type), 0)
    /\ last.id \notin last.idsBefore

\* The construction-time state with undefined fields normalized to null.
NormalizedInitialState(o) ==
    [k \in DOMAIN stores[o].constructedWith |->
        IF stores[o].constructedWith[k] = "undefined" THEN "null"
        ELSE stores[o].constructedWith[k]]

\* C5: after clearState() (called as the action method or dispatched by
\* name) the snapshot equals the construction-time state with undefined
\* normalized to null, whatever setState calls came before.  Initial states
\* holding a function, which cannot round-trip, are left out.
C5_ClearStateRestoresInitialState ==
    (/\ last.op \in {"action", "dispatch"}
     /\ last.type = "clearState"
     /\ last.error = "none"
     /\ \A k \in DOMAIN stores[last.obj].constructedWith :
            stores[last.obj].constructedWith[k] # "function")
        => stores[last.obj].snapshot = NormalizedInitialState(last.obj)

\* The patch of the last setState: the argument, or the function's result
\* on the snapshot it was given.
LastPatch ==
    IF last.form = "function" THEN ApplyFn(last.fn, last.before) ELSE last.arg

\* C6: after setState the snapshot has the keys of the old snapshot and of
\* the patch and no others; each key of the patch holds the patch's value,
\* each other key the old snapshot's value.
C6_SetStateShallowMerge ==
    last.op = "setState"
        => LET now == stores[last.obj].snapshot
           IN  /\ DOMAIN now = (DOMAIN last.before) \cup (DOMAIN LastPatch)
               /\ \A k \in DOMAIN LastPatch : now[k] = LastPatch[k]
               /\ \A k \in (DOMAIN last.before) \ (DOMAIN LastPatch) :
                      now[k] = last.before[k]

C6_Witness ==
    /\ last.op = "setState"
    /\ \E k \in (DOMAIN last.before) \cap (DOMAIN LastPatch) :
           last.before[k] # LastPatch[k]
    /\ (DOMAIN last.before) \ (DOMAIN LastPatch) # {}

\* C7: dispatch(type) with a name not registered for the store's class fails
\* with the action-not-found error, invokes no implementation and leaves the
\* snapshot unchanged.
C7_UnregisteredDispatchNotFound ==
    (last.op = "dispatch" /\ last.type \notin RegisteredActions(stores[last.obj].class))
        => /\ last.error = "ActionNotFound"
           /\ last.invoked = <<>>
           /\ stores[last.obj].snapshot = last.before

\* The store object whose execution a handle stands for.
Owner(h) == pending[h.token].obj

\* C8: cancelUncompleted('store') removes exactly the handles of the store
\* that called it and leaves the pending handles of every other live store
\* in place; cancelUncompleted('all') removes every handle.
C8_CancelScopes ==
    [][last'.op = "cancelUncompleted"
         => IF last'.scope = "all"
            THEN handles' = {}
            ELSE \A h \in handles :
                    /\ Owner(h) = last'.obj => h \notin handles'
                    /\ (Owner(h) # last'.obj /\ Owner(h) \in LiveObjects)
                           => (h \in handles' /\ h.token \in DOMAIN pending')]_vars

\* C9: after ngOnDestroy of a store no handle of that store remains and its
\* id is out of the registry, while the registry entry and the pending
\* handles of every other live store are as before.
C9_TeardownFrame ==
    [][last'.op = "ngOnDestroy"
         => /\ \A h \in handles' : pending'[h.token].obj # last'.obj
            /\ getStoreInstanceId(last'.obj) \notin DOMAIN registry'
            /\ \A x \in LiveObjects \ {last'.obj} :
                  /\ getStoreInstanceId(x) \in DOMAIN registry
                        => /\ getStoreInstanceId(x) \in DOMAIN registry'
                           /\ registry'[getStoreInstanceId(x)] = registry[getStoreInstanceId(x)]
                  /\ {h \in handles : Owner(h) = x}
                        = {h \in handles' : pending'[h.token].obj = x}]_vars

\* C10: every execution in flight, started by dispatch(type, payload) or by
\* an action method, has a handle in the Dispatcher under its store's id, so
\* that cancelUncompleted() or teardown of that store leaves none of its
\* executions in flight.
C10_EveryDispatchIsCancellable ==
    [][/\ \A t \in DOMAIN pending' :
             [storeId |-> stores'[pending'[t].obj].defaultStoreInstanceId,
              token |-> t] \in handles'
       /\ last'.op \in {"cancelUncompleted", "ngOnDestroy"}
             => \A t \in DOMAIN pending' : pending'[t].obj # last'.obj]_vars

\* C15: each successful construction makes exactly one dispatch, of type
\* INIT, keyed by the new store's own instance id and issued when the store
\* is already registered under that id; it changes no state: after the
\* construction the snapshot is the initial state that was passed.
C15_ConstructionDispatchesInitOnce ==
    (last.op = "new" /\ last.error = "none")
        => /\ last.dispatched =
                  <<[storeId |-> getStoreInstanceId(last.obj), type |-> "INIT",
                     registered |-> TRUE]>>
           /\ last.id = getStoreInstanceId(last.obj)
           /\ stores[last.obj].snapshot = stores[last.obj].constructedWith

C15_Witness ==
    /\ last.op = "new"
    /\ last.error = "none"
    /\ last.liveBefore >= 1
    /\ Len(last.dispatched) = 1
    /\ stores[last.obj].snapshot = [a |-> "function", b |-> "1"]
    /\ stores[last.obj].initialStateCache # stores[last.obj].snapshot

\* The class of the last construction sets instanceMaxCount to 0.
Unlimited(new) ==
    /\ "instanceMaxCount" \in DOMAIN typeOptions[new.type]
    /\ typeOptions[new.type].instanceMaxCount = 0

\* C16: with instanceMaxCount = 0 a construction never fails with the
\* configuration error, in either mode and whatever the number of live
\* instances, and the new store's id differs from the id of every other
\* live store.
C16_ZeroMaxCountIsUnlimited ==
    (last.op = "new" /\ Unlimited(last))
        => /\ last.error = "none"
           /\ last.id \notin last.idsBefore
           /\ \A x \in LiveObjects \ {last.obj} :
                  getStoreInstanceId(x) # getStoreInstanceId(last.obj)

C16_Witness ==
    /\ last.op = "new"
    /\ Unlimited(last)
    /\ last.liveBefore = MaxStores - 1
    /\ last.error = "none"
    /\ last.id = SuffixedId(NameOf(last.type), MaxStores - 1)

\* The suffixes 1..instanceMaxCount-1 of the type of the construction `new`
\* that no live instance held before it (those the scan can reach).
FreeSuffixes(new) ==
    {i \in ScannedSuffixes(registry, getInstanceMaxCount(typeOptions[new.type])) :
        SuffixedId(NameOf(new.type), i) \notin new.idsBefore}

\* C18 as stated: a new store receives the bare type name exactly when no
\* instance of that type is live; otherwise it receives `Name-k`, k being
\* the smallest suffix in 1..instanceMaxCount-1 no live instance holds
\* (stated for the constructions that find such a suffix free).
C18_BareNameIffNoLiveInstance ==
    (last.op = "new" /\ last.error = "none")
        => IF last.liveBefore = 0
           THEN last.id = NameOf(last.type)
           ELSE FreeSuffixes(last) # {}
                   => last.id = SuffixedId(NameOf(last.type), Min(FreeSuffixes(last)))

\* C18 amended: a new store receives the bare type name exactly when no
\* live instance holds the bare name, whether or not suffixed instances of
\* the type are live; otherwise, when some suffix in 1..instanceMaxCount-1
\* is held by no live instance, it receives `Name-k` with k the smallest
\* such suffix.
C18_BareNameIffBareNameFree ==
    (last.op = "new" /\ last.error = "none")
        => IF NameOf(last.type) \notin last.idsBefore
           THEN last.id = NameOf(last.type)
           ELSE /\ last.id # NameOf(last.type)
                /\ FreeSuffixes(last) # {}
                      => last.id = SuffixedId(NameOf(last.type), Min(FreeSuffixes(last)))

\* The bare-named instance was torn down while suffixed ones stayed live,
\* and the next construction received the bare name again.
C18_Witness ==
    /\ last.op = "new"
    /\ last.error = "none"
    /\ last.liveBefore >= 1
    /\ last.id = NameOf(last.type)
    /\ \E o \in Objects : ~stores[o].live /\ getStoreInstanceId(o) = last.id

\* C19: every store that was constructed and not torn down has its
\* instance id in the registry: the teardown of one store never removes
\* the entry another live store relies on.
C19_LiveStoresAreRegistered ==
    \A o \in LiveObjects : getStoreInstanceId(o) \in DOMAIN registry

\* The handles that reached a terminal status in the last operation.
LastEnded(l) == IF "ended" \in DOMAIN l THEN l.ended ELSE {}

HandleOf(e) == [storeId |-> e.storeId, token |-> e.token]

\* C17: a handle enters the table (Pending) only by a dispatch; a handle
\* that leaves the table takes exactly one terminal status, Completed,
\* Errored or Cancelled; only handles that were Pending take one, so a
\* cancellation that finds an execution already ended changes nothing; and
\* what a cancellation ends is Cancelled, never Errored.
C17_HandleLifecycle ==
    [][/\ \A h \in handles' \ handles : last'.op = "action"
       /\ \A h \in handles \ handles' :
              Cardinality({e \in LastEnded(last') : HandleOf(e) = h}) = 1
       /\ \A e \in LastEnded(last') :
              /\ HandleOf(e) \in handles \ handles'
              /\ e.status \in {"Completed", "Errored", "Cancelled"}
              /\ e.token \notin DOMAIN pending'
       /\ last'.op \in {"cancelUncompleted", "ngOnDestroy"}
              => \A e \in LastEnded(last') : e.status = "Cancelled"
       /\ (last'.op \in {"cancelUncompleted", "ngOnDestroy"}
              /\ CancelTargets(last'.obj, IF last'.op = "ngOnDestroy" THEN "store"
                                          ELSE last'.scope) = {})
              => (handles' = handles /\ pending' = pending)]_vars

\* A cancellation ended a Pending handle.
C17_Witness ==
    /\ last.op = "cancelUncompleted"
    /\ \E e \in last.ended : e.status = "Cancelled"
    /\ handles = {}

\* The subscriptions to select() of the store of the last operation.
SelectionsOfLast == {i \in DOMAIN selections : selections[i].obj = last.obj}

IsPrefix(a, b) == Len(a) <= Len(b) /\ \A i \in 1..Len(a) : a[i] = b[i]

\* C11: for one dispatch call the implementation is executed at most once,
\* however many observers subscribe to the returned stream and whenever
\* they do: originalFn is called once, the source it returned is run once,
\* and every observer receives the values of that one run, in order.
C11_OneExecutionPerDispatch ==
    \A s \in DOMAIN streams :
        /\ streams[s].invocations <= 1
        /\ streams[s].runs <= 1
        /\ \A i \in DOMAIN streams[s].observers :
               IsPrefix(streams[s].observers[i].received, streams[s].first)

\* C13: when a registered implementation throws synchronously, dispatch
\* still returns a stream, which has terminated with the error, and the
\* executions in flight are as they were.
C13_ThrowBecomesErroredStream ==
    (/\ last.op = "dispatch"
     /\ last.type \in RegisteredActions(stores[last.obj].class)
     /\ ResultKind(last.type) = "throws")
        => /\ last.error = "none"
           /\ \E s \in DOMAIN streams :
                 /\ streams[s].type = last.type
                 /\ streams[s].status = "errored"

\* C14: when the implementation returns a plain value v, or a Promise that
\* has resolved to v, every observer of the result stream has received
\* exactly one element, and it is v.
C14_PlainResultIsSingleElement ==
    \A s \in DOMAIN streams : \A i \in DOMAIN streams[s].observers :
        /\ streams[s].kind = "plain"
              => streams[s].observers[i].received = <<ReturnedValue(streams[s].type)>>
        /\ (streams[s].kind = "promise" /\ streams[s].observers[i].status = "completed")
              => streams[s].observers[i].received = <<ResolvedValue(streams[s].type)>>

\* The patch of the setState that the record l describes.
PatchOf(l) == IF l.form = "function" THEN ApplyFn(l.fn, l.before) ELSE l.arg

\* C20: whatever the order in which actions in flight call setState, each
\* call publishes the snapshot of the moment merged with its whole patch:
\* every key of the patch takes the patch's value, every other key keeps
\* the value it had, so each key holds the value of the last setState
\* whose patch contained it and no update to one key is lost to an update
\* of another; and the snapshot changes in no other step.
C20_SetStateIsAtomicMerge ==
    [][IF last'.op = "setState"
       THEN LET o == last'.obj
                p == PatchOf(last')
            IN  /\ last'.before = stores[o].snapshot
                /\ DOMAIN stores'[o].snapshot = (DOMAIN stores[o].snapshot) \cup (DOMAIN p)
                /\ \A k \in DOMAIN p : stores'[o].snapshot[k] = p[k]
                /\ \A k \in (DOMAIN stores[o].snapshot) \ (DOMAIN p) :
                       stores'[o].snapshot[k] = stores[o].snapshot[k]
       ELSE \A o \in Objects : stores'[o].snapshot = stores[o].snapshot]_vars

\* With two actions still in flight, a setState on b alone kept the value
\* an earlier setState had given to a.
C20_Witness ==
    /\ last.op = "setState"
    /\ Cardinality(DOMAIN pending) >= 2
    /\ DOMAIN PatchOf(last) = {"b"}
    /\ Read(last.before, "b") # Read(stores[1].snapshot, "b")
    /\ Read(stores[1].constructedWith, "a") # Read(stores[1].snapshot, "a")
    /\ Read(stores[1].snapshot, "a") = "1"

====
